---- MODULE Spec2Model ----
(***************************************************************************)
(* Model of plugins/modules/backup.py: the Ansible module that triggers an *)
(* on-demand backup in Google Backup and DR.  One invocation is main()     *)
(* followed by Backup.application(): a session POST, three name lookups    *)
(* and the backup POST, each a blocking HTTP call.  The backup service is  *)
(* the environment: every response is drawn from a bounded set.            *)
(*                                                                         *)
(* Python values: a str parameter that is only formatted or compared is a  *)
(* TLA+ string, api_url and access_token (which are stripped) are          *)
(* sequences of one-character strings, None is None / NoneSeq, a missing   *)
(* dict key is Missing.  JSON ids are strings ("1", "x"); int() is IntOf.  *)
(*                                                                         *)
(* Spec is one run against a service that may answer anything; SpecSeq is  *)
(* two successive runs with the same input against a service with one      *)
(* fixed answer per endpoint; SpecConc is two runs at the same time.       *)
(***************************************************************************)
EXTENDS Integers, Sequences, FiniteSets, TLC

VARIABLES pc, params, check_mode, session_id, tpl_id, pol_id, app_id,
          result, lastResp, seen, requests, service

vars == <<pc, params, check_mode, session_id, tpl_id, pol_id, app_id,
          result, lastResp, seen, requests, service>>

-----------------------------------------------------------------------------
(* Bounds of the environment *)

MaxItems == 2
MaxRights == 2

Invocations == {1, 2}

-----------------------------------------------------------------------------
(* Values *)

None == "None"
NoneSeq == <<"None">>
Missing == "Missing"

RequiredRight == "Access to Backup & Recover"
SessionOK == 200
BackupMinOK == 200
BackupMaxOK == 204

Whitespace == {" ", "\n"}

ApiUrls == {NoneSeq, <<"u">>, <<"u", "/">>}
AccessTokens == {NoneSeq, <<"k">>, <<"k", " ">>}
ParamNames == {None, "a"}
Labels == {None, "", "L"}

ItemNames == {"a", "b", Missing}
ItemIds == {"1", "2", "x", Missing}
SessionIds == {"S1", "S2", Missing}
RightIds == {RequiredRight, "other", Missing}
SessionStatuses == {200, 201, 401}
BackupStatuses == {199, 200, 202, 204, 205, 500}
BackupBodies == {"b1", "b2"}

Range(s) == {s[k] : k \in DOMAIN s}

SeqsUpTo(S, n) == UNION {[1..m -> S] : m \in 0..n}

Params ==
    [api_url : ApiUrls, access_token : AccessTokens,
     template_name : ParamNames, policy_name : ParamNames,
     app_name : ParamNames, label : Labels]

DefaultParams ==
    [api_url |-> <<"u">>, access_token |-> <<"k", " ">>,
     template_name |-> "a", policy_name |-> "a", app_name |-> "a",
     label |-> None]

Items == [name : ItemNames, id : ItemIds]

NoResp ==
    [ep |-> "none", status |-> 0, kind |-> "none", id |-> Missing,
     hasRights |-> FALSE, rights |-> <<>>, hasItems |-> FALSE,
     items |-> <<>>, body |-> "-"]

(* POST /session -> {id, rights: [{id}]}; the body may also be something   *)
(* json() cannot parse, or JSON that is not an object.                     *)
SessionResponses ==
    {[NoResp EXCEPT !.ep = "session", !.status = s, !.kind = k] :
        s \in SessionStatuses, k \in {"notjson", "list"}}
    \cup
    {[NoResp EXCEPT !.ep = "session", !.status = s, !.kind = "object",
                    !.id = sid, !.hasRights = TRUE, !.rights = rs] :
        s \in SessionStatuses, sid \in SessionIds,
        rs \in SeqsUpTo(RightIds, MaxRights)}
    \cup
    {[NoResp EXCEPT !.ep = "session", !.status = s, !.kind = "object",
                    !.id = sid] :
        s \in SessionStatuses, sid \in SessionIds}

(* GET /slt, /slt/{id}/policy, /application -> {items: [{id, name}]}       *)
LookupResponses(ep) ==
    {[NoResp EXCEPT !.ep = ep, !.kind = "notjson"],
     [NoResp EXCEPT !.ep = ep, !.kind = "object"]}
    \cup
    {[NoResp EXCEPT !.ep = ep, !.kind = "object", !.hasItems = TRUE,
                    !.items = its] :
        its \in SeqsUpTo(Items, MaxItems)}

BackupResponses ==
    {[NoResp EXCEPT !.ep = "backup", !.status = s, !.kind = "object",
                    !.body = b] :
        s \in BackupStatuses, b \in BackupBodies}

(* The backup service the invocations talk to: either it may answer a     *)
(* call with any response of the endpoint, or it answers from a given set  *)
(* of responses per endpoint (one response each: a service that answers    *)
(* every invocation identically).                                          *)
AnyService ==
    [any |-> TRUE, session |-> {}, slt |-> {}, policy |-> {},
     application |-> {}, backup |-> {}]

Answers(ep, all) == IF service.any THEN all ELSE service[ep]

-----------------------------------------------------------------------------
(* Results handed to the host framework *)

NoResult ==
    [how |-> "none", hasChanged |-> FALSE, changed |-> FALSE,
     hasMsg |-> FALSE, msg |-> <<>>, hasBackup |-> FALSE, exc |-> "-"]

exit_json_changed_msg(c, m) ==
    [NoResult EXCEPT !.how = "exit_json", !.hasChanged = TRUE, !.changed = c,
                     !.hasMsg = TRUE, !.msg = m]

exit_json_changed_backup(c) ==
    [NoResult EXCEPT !.how = "exit_json", !.hasChanged = TRUE, !.changed = c,
                     !.hasBackup = TRUE]

fail_json_changed_msg(c, m) ==
    [NoResult EXCEPT !.how = "fail_json", !.hasChanged = TRUE, !.changed = c,
                     !.hasMsg = TRUE, !.msg = m]

fail_json_msg(m) ==
    [NoResult EXCEPT !.how = "fail_json", !.hasMsg = TRUE, !.msg = m]

Raised(e) == [NoResult EXCEPT !.how = "exception", !.exc = e]

-----------------------------------------------------------------------------
(* Pure steps of Backup.application *)

(* str.rstrip(chars): drop trailing characters that are in chars *)
RECURSIVE RStrip(_, _)
RStrip(s, chars) ==
    IF s # <<>> /\ s[Len(s)] \in chars
    THEN RStrip(SubSeq(s, 1, Len(s) - 1), chars)
    ELSE s

(* int(pol_id): defined on decimal strings only, ValueError otherwise *)
IsNumeric(id) == id \in {"1", "2"}

IntOf(id) == IF id = "1" THEN 1 ELSE 2

(* Variant: any non-empty rights list grants access *)
HaveAccessAnyRight(r) == r.hasRights /\ r.rights # <<>>

(* [True for r in session_json["rights"] if r["id"] == ...][0], any        *)
(* exception swallowed: a missing rights key, an entry without id and an   *)
(* empty selection all leave have_access False.                            *)
HaveAccess(r) ==
    /\ r.hasRights
    /\ \A k \in DOMAIN r.rights : r.rights[k] # Missing
    /\ \E k \in DOMAIN r.rights : r.rights[k] = RequiredRight

(* Variant: an empty selection falls back to an id instead of aborting *)
FirstMatchNoAbort(r, wanted) ==
    LET its == IF r.kind = "object" /\ r.hasItems THEN r.items ELSE <<>>
        hits == SelectSeq(its, LAMBDA it : it.name = wanted
                                           /\ it.id # Missing)
    IN  IF hits = <<>>
        THEN [ok |-> TRUE, id |-> "1"]
        ELSE [ok |-> TRUE, id |-> hits[1].id]

(* Variant: the last matching item is taken *)
FirstMatchTakesLast(r, wanted) ==
    LET its == r.items
        hits == SelectSeq(its, LAMBDA it : it.name = wanted)
    IN  IF \/ r.kind # "object"
           \/ ~r.hasItems
           \/ \E k \in DOMAIN its : its[k].name = Missing
           \/ \E k \in DOMAIN hits : hits[k].id = Missing
           \/ hits = <<>>
        THEN [ok |-> FALSE, id |-> Missing]
        ELSE [ok |-> TRUE, id |-> hits[Len(hits)].id]

(* [t["id"] for t in resp.json()["items"] if t["name"] == wanted][0]       *)
(* under try/except Exception: the comprehension visits every item, so an  *)
(* item without the name key, or a matching item without id, raises; so    *)
(* does a body that is not JSON or has no items, and an empty selection.   *)
IsMatch(it, wanted) == it.name = wanted

FirstMatch(r, wanted) ==
    LET its == r.items
        hits == SelectSeq(its, LAMBDA it : IsMatch(it, wanted))
    IN  IF \/ r.kind # "object"
           \/ ~r.hasItems
           \/ \E k \in DOMAIN its : its[k].name = Missing
           \/ \E k \in DOMAIN hits : hits[k].id = Missing
           \/ hits = <<>>
        THEN [ok |-> FALSE, id |-> Missing]
        ELSE [ok |-> TRUE, id |-> hits[1].id]

(* Variant: only an omitted label is left out *)
LabelGivenNotNone(label) == label # None

(* if label: backup_body["label"] = label *)
LabelGiven(label) == label # None /\ label # ""

(* Variant: the upper end of the accepted range is off by one *)
BackupFailedOffByOne(status) == status < 200 \/ status > 205

(* backup_resp.status_code < 200 or backup_resp.status_code > 204 *)
BackupFailed(status) == status < BackupMinOK \/ status > BackupMaxOK

(* The f-string messages, as the sequence of their fragments *)
MsgAuthFailed ==
    <<"Failed authentication - ensure you have authenticated with gcloud">>

MsgNoSessionId == <<"Failed to get session ID on authentication">>

MsgNoAccess == <<"You do not have access to invoke BackupNow">>

(* Variant: the template message names the policy *)
MsgTemplateWrongName(p) ==
    <<"Failed to retrieve SLA template '", p.policy_name, "'">>

MsgTemplate(p) ==
    <<"Failed to retrieve SLA template '", p.template_name, "'">>

MsgPolicy(p) ==
    <<"Failed to retrieve SLA template policy '", p.policy_name,
      "' for SLA template '", p.template_name, "'">>

MsgApp(p) == <<"Failed to retrieve application '", p.app_name, "'">>

(* {backup_resp.json} formats the bound method, not the parsed body *)
BoundMethodRepr == "<bound method Response.json of <Response>>"

BackupDetail(r) == BoundMethodRepr

MsgBackupFailed(p, r) ==
    <<"Failed to initiate backup of application '", p.app_name,
      "' (HTTP ", ToString(r.status), ": ", BackupDetail(r), ")">>

MsgBackupDone(p) ==
    <<"Backup initiated for application '", p.app_name, "'">>

(* Variant: the body is parsed before the status is looked at *)
SessionResultParseFirst(r) ==
    IF r.kind = "notjson" THEN Raised("JSONDecodeError")
    ELSE IF r.kind = "list" THEN Raised("TypeError")
    ELSE IF r.id = Missing THEN fail_json_msg(MsgNoSessionId)
    ELSE IF r.status # SessionOK
         THEN fail_json_changed_msg(FALSE, MsgAuthFailed)
    ELSE IF ~HaveAccess(r) THEN fail_json_changed_msg(FALSE, MsgNoAccess)
    ELSE NoResult

(* Variant: the exceptions of the rights check are not swallowed *)
SessionResultRightsRaise(r) ==
    IF r.status # SessionOK THEN fail_json_changed_msg(FALSE, MsgAuthFailed)
    ELSE IF r.kind = "notjson" THEN Raised("JSONDecodeError")
    ELSE IF r.kind = "list" THEN Raised("TypeError")
    ELSE IF r.id = Missing THEN fail_json_msg(MsgNoSessionId)
    ELSE IF ~r.hasRights THEN Raised("KeyError")
    ELSE IF \E k \in DOMAIN r.rights : r.rights[k] = Missing
         THEN Raised("KeyError")
    ELSE IF \A k \in DOMAIN r.rights : r.rights[k] # RequiredRight
         THEN Raised("IndexError")
    ELSE NoResult

(* Lines 115-130: what the session response leads to; NoResult = go on *)
SessionResult(r) ==
    IF r.status # SessionOK THEN fail_json_changed_msg(FALSE, MsgAuthFailed)
    ELSE IF r.kind = "notjson" THEN Raised("JSONDecodeError")
    ELSE IF r.kind = "list" THEN Raised("TypeError")
    ELSE IF r.id = Missing THEN fail_json_msg(MsgNoSessionId)
    ELSE IF ~HaveAccess(r) THEN fail_json_changed_msg(FALSE, MsgNoAccess)
    ELSE NoResult

(* Lines 162-165 *)
BackupResult(p, r) ==
    IF BackupFailed(r.status) THEN fail_json_msg(MsgBackupFailed(p, r))
    ELSE exit_json_changed_msg(TRUE, MsgBackupDone(p))

-----------------------------------------------------------------------------
(* Requests *)

NoReq ==
    [inv |-> 0, method |-> "GET", ep |-> "none", base |-> <<>>, id |-> "-",
     auth |-> <<>>, session |-> "-", hasJson |-> FALSE, policy |-> 0,
     hasLabel |-> FALSE, label |-> "-"]

(* headers = {"Authorization": f"Bearer {access_token}", ...} and the URL  *)
(* prefix, from the stripped parameters                                    *)
BaseReq(i, p) ==
    [NoReq EXCEPT !.inv = i, !.base = RStrip(p.api_url, {"/"}),
                  !.auth = RStrip(p.access_token, Whitespace)]

SessionReq(i, p) == [BaseReq(i, p) EXCEPT !.method = "POST", !.ep = "session"]

(* Variant: the session header is kept in one place for all invocations *)
TemplateReqSharedHeader(i, p, sid) ==
    [BaseReq(i, p) EXCEPT
        !.ep = "slt",
        !.session = session_id[CHOOSE j \in Invocations :
                                  session_id[j] # Missing]]

(* headers["backupdr-management-session"] = f"Actifio {session_id}" *)
TemplateReq(i, p, sid) ==
    [BaseReq(i, p) EXCEPT !.ep = "slt", !.session = sid]

PolicyReq(i, p, sid, tid) ==
    [BaseReq(i, p) EXCEPT !.ep = "policy", !.session = sid, !.id = tid]

ApplicationReq(i, p, sid) ==
    [BaseReq(i, p) EXCEPT !.ep = "application", !.session = sid]

(* Variant: the policy id goes into the URL and the application id into  *)
(* the body                                                                *)
BackupReqSwapsIds(i, p, sid, aid, pid) ==
    [BaseReq(i, p) EXCEPT !.method = "POST", !.ep = "backup",
                          !.session = sid, !.id = pid, !.hasJson = TRUE,
                          !.policy = IntOf(aid),
                          !.hasLabel = LabelGiven(p.label),
                          !.label = IF LabelGiven(p.label) THEN p.label
                                    ELSE "-"]

BackupReq(i, p, sid, aid, pid) ==
    [BaseReq(i, p) EXCEPT !.method = "POST", !.ep = "backup",
                          !.session = sid, !.id = aid, !.hasJson = TRUE,
                          !.policy = IntOf(pid),
                          !.hasLabel = LabelGiven(p.label),
                          !.label = IF LabelGiven(p.label) THEN p.label
                                    ELSE "-"]

RequestsOf(i, ep) ==
    SelectSeq(requests, LAMBDA q : q.inv = i /\ q.ep = ep)

RequestsBy(i) == SelectSeq(requests, LAMBDA q : q.inv = i)

-----------------------------------------------------------------------------
(* What a response is, independently of how the code reads it *)

SessionHasId(r) == r.status = SessionOK /\ r.kind = "object" /\ r.id # Missing

RightsContain(r) ==
    r.hasRights /\ \E k \in DOMAIN r.rights : r.rights[k] = RequiredRight

ListsName(r, wanted) ==
    r.kind = "object" /\ r.hasItems
    /\ \E k \in DOMAIN r.items : r.items[k].name = wanted

(* The id of the first item, in list order, that carries the name *)
MatchedId(r, wanted) ==
    IF ListsName(r, wanted)
    THEN LET first == CHOOSE k \in DOMAIN r.items :
                         /\ r.items[k].name = wanted
                         /\ \A j \in 1..(k - 1) : r.items[j].name # wanted
         IN  r.items[first].id
    ELSE Missing

(* What the responses received so far were: whether each step's response  *)
(* had what the step needs, and the ids it named                           *)
NoneSeen ==
    [session |-> FALSE, entitled |-> FALSE, template |-> FALSE,
     policy |-> FALSE, app |-> FALSE,
     sid |-> Missing, tplId |-> Missing, polId |-> Missing,
     appId |-> Missing]

-----------------------------------------------------------------------------
(* State machine *)

Init ==
    /\ pc = [i \in Invocations |-> IF i = 1 THEN "main" ELSE "idle"]
    /\ params \in [Invocations -> Params]
    /\ params[2] = DefaultParams
    /\ check_mode \in [Invocations -> BOOLEAN]
    /\ check_mode[2] = FALSE
    /\ session_id = [i \in Invocations |-> Missing]
    /\ tpl_id = [i \in Invocations |-> Missing]
    /\ pol_id = [i \in Invocations |-> Missing]
    /\ app_id = [i \in Invocations |-> Missing]
    /\ result = [i \in Invocations |-> NoResult]
    /\ lastResp = [i \in Invocations |-> NoResp]
    /\ seen = [i \in Invocations |-> NoneSeen]
    /\ requests = <<>>
    /\ service = AnyService

(* exit_json, fail_json and an uncaught exception all end the process *)
Finish(i, res) ==
    /\ result' = [result EXCEPT ![i] = res]
    /\ pc' = [pc EXCEPT ![i] = "done"]

Continue(i, next) ==
    /\ pc' = [pc EXCEPT ![i] = next]
    /\ UNCHANGED result

(* argument_spec marks no option required, so AnsibleModule accepts every  *)
(* parameter dictionary and fills the omitted options with None.           *)
RequiredArgs == {}

(* Variant: check mode is not consulted *)
MainIgnoresCheckMode(i) ==
    /\ pc[i] = "main"
    /\ Continue(i, "session")
    /\ UNCHANGED <<service, params, check_mode,
                   session_id, tpl_id, pol_id, app_id,
                   lastResp, seen, requests>>

(* main(): lines 171-193 *)
Main(i) ==
    /\ pc[i] = "main"
    /\ IF \E n \in RequiredArgs : params[i][n] \in {None, NoneSeq}
       THEN Finish(i, fail_json_msg(<<"missing required arguments">>))
       ELSE IF check_mode[i]
            THEN Finish(i, exit_json_changed_backup(TRUE))
            ELSE Continue(i, "session")
    /\ UNCHANGED <<service, params, check_mode,
                   session_id, tpl_id, pol_id, app_id,
                   lastResp, seen, requests>>

(* A blocking requests.post / requests.get: the request leaves, and the   *)
(* call later returns a response or raises.  lastResp is the response the  *)
(* code is working on; it is dropped when the next request leaves.         *)
Send(i, req, next) ==
    /\ requests' = Append(requests, req)
    /\ lastResp' = [lastResp EXCEPT ![i] = NoResp]
    /\ Continue(i, next)

ConnectionFails(i) ==
    /\ Finish(i, Raised("ConnectionError"))
    /\ UNCHANGED <<lastResp, seen>>

(* Variant: a session id obtained by an earlier run is kept and reused *)
PostSessionReusesSession(i) ==
    /\ pc[i] = "session"
    /\ IF \E j \in Invocations : j # i /\ session_id[j] # Missing
       THEN LET j == CHOOSE j \in Invocations :
                        j # i /\ session_id[j] # Missing
            IN  /\ session_id' = [session_id EXCEPT ![i] = session_id[j]]
                /\ seen' = [seen EXCEPT ![i].session = TRUE,
                                        ![i].entitled = TRUE,
                                        ![i].sid = session_id[j]]
                /\ Continue(i, "template")
                /\ UNCHANGED <<lastResp, requests>>
       ELSE /\ Send(i, SessionReq(i, params[i]), "session_wait")
            /\ UNCHANGED <<session_id, seen>>
    /\ UNCHANGED <<service, params, check_mode, tpl_id, pol_id, app_id>>

(* application(): lines 101-114 *)
PostSession(i) ==
    /\ pc[i] = "session"
    /\ LET p == params[i] IN
       IF p.api_url = NoneSeq \/ p.access_token = NoneSeq
       THEN /\ Finish(i, Raised("AttributeError"))
            /\ UNCHANGED <<lastResp, requests>>
       ELSE Send(i, SessionReq(i, p), "session_wait")
    /\ UNCHANGED <<service, params, check_mode,
                   session_id, tpl_id, pol_id, app_id,
                   seen>>

(* lines 114-132 *)
OnSession(i) ==
    /\ pc[i] = "session_wait"
    /\ \/ /\ ConnectionFails(i)
          /\ UNCHANGED session_id
       \/ \E r \in Answers("session", SessionResponses) :
          /\ lastResp' = [lastResp EXCEPT ![i] = r]
          /\ seen' = [seen EXCEPT ![i].session = SessionHasId(r),
                                  ![i].entitled = RightsContain(r),
                                  ![i].sid = r.id]
          /\ IF SessionResult(r) = NoResult
             THEN /\ session_id' = [session_id EXCEPT ![i] = r.id]
                  /\ Continue(i, "template")
             ELSE /\ Finish(i, SessionResult(r))
                  /\ UNCHANGED session_id
    /\ UNCHANGED <<service, params, check_mode,
                   tpl_id, pol_id, app_id, requests>>

(* Variant: the application list is asked for first *)
GetTemplatesAsksApplications(i) ==
    /\ pc[i] = "template"
    /\ Send(i, ApplicationReq(i, params[i], session_id[i]), "template_wait")
    /\ UNCHANGED <<service, params, check_mode,
                   session_id, tpl_id, pol_id, app_id,
                   seen>>

(* line 134 *)
GetTemplates(i) ==
    /\ pc[i] = "template"
    /\ Send(i, TemplateReq(i, params[i], session_id[i]), "template_wait")
    /\ UNCHANGED <<service, params, check_mode,
                   session_id, tpl_id, pol_id, app_id,
                   seen>>

(* lines 134-138 *)
OnTemplates(i) ==
    /\ pc[i] = "template_wait"
    /\ LET p == params[i] IN
       \/ /\ ConnectionFails(i)
          /\ UNCHANGED tpl_id
       \/ \E r \in Answers("slt", LookupResponses("slt")) :
          LET m == FirstMatch(r, p.template_name) IN
          /\ lastResp' = [lastResp EXCEPT ![i] = r]
          /\ seen' = [seen EXCEPT
                        ![i].template = ListsName(r, p.template_name),
                        ![i].tplId = MatchedId(r, p.template_name)]
          /\ IF m.ok
             THEN /\ tpl_id' = [tpl_id EXCEPT ![i] = m.id]
                  /\ Continue(i, "policy")
             ELSE /\ Finish(i, fail_json_msg(MsgTemplate(p)))
                  /\ UNCHANGED tpl_id
    /\ UNCHANGED <<service, params, check_mode,
                   session_id, pol_id, app_id, requests>>

(* line 140 *)
GetPolicies(i) ==
    /\ pc[i] = "policy"
    /\ Send(i, PolicyReq(i, params[i], session_id[i], tpl_id[i]),
            "policy_wait")
    /\ UNCHANGED <<service, params, check_mode,
                   session_id, tpl_id, pol_id, app_id,
                   seen>>

(* lines 140-144 *)
OnPolicies(i) ==
    /\ pc[i] = "policy_wait"
    /\ LET p == params[i] IN
       \/ /\ ConnectionFails(i)
          /\ UNCHANGED pol_id
       \/ \E r \in Answers("policy", LookupResponses("policy")) :
          LET m == FirstMatch(r, p.policy_name) IN
          /\ lastResp' = [lastResp EXCEPT ![i] = r]
          /\ seen' = [seen EXCEPT
                        ![i].policy = ListsName(r, p.policy_name),
                        ![i].polId = MatchedId(r, p.policy_name)]
          /\ IF m.ok
             THEN /\ pol_id' = [pol_id EXCEPT ![i] = m.id]
                  /\ Continue(i, "application")
             ELSE /\ Finish(i, fail_json_msg(MsgPolicy(p)))
                  /\ UNCHANGED pol_id
    /\ UNCHANGED <<service, params, check_mode,
                   session_id, tpl_id, app_id, requests>>

(* line 146 *)
GetApplications(i) ==
    /\ pc[i] = "application"
    /\ Send(i, ApplicationReq(i, params[i], session_id[i]),
            "application_wait")
    /\ UNCHANGED <<service, params, check_mode,
                   session_id, tpl_id, pol_id, app_id,
                   seen>>

(* lines 146-150 *)
OnApplications(i) ==
    /\ pc[i] = "application_wait"
    /\ LET p == params[i] IN
       \/ /\ ConnectionFails(i)
          /\ UNCHANGED app_id
       \/ \E r \in Answers("application",
                          LookupResponses("application")) :
          LET m == FirstMatch(r, p.app_name) IN
          /\ lastResp' = [lastResp EXCEPT ![i] = r]
          /\ seen' = [seen EXCEPT
                        ![i].app = ListsName(r, p.app_name),
                        ![i].appId = MatchedId(r, p.app_name)]
          /\ IF m.ok
             THEN /\ app_id' = [app_id EXCEPT ![i] = m.id]
                  /\ Continue(i, "backup")
             ELSE /\ Finish(i, fail_json_msg(MsgApp(p)))
                  /\ UNCHANGED app_id
    /\ UNCHANGED <<service, params, check_mode,
                   session_id, tpl_id, pol_id, requests>>

(* lines 152-160: int(pol_id) raises before the request is built *)
PostBackup(i) ==
    /\ pc[i] = "backup"
    /\ IF ~IsNumeric(pol_id[i])
       THEN /\ Finish(i, Raised("ValueError"))
            /\ lastResp' = [lastResp EXCEPT ![i] = NoResp]
            /\ UNCHANGED requests
       ELSE Send(i, BackupReq(i, params[i], session_id[i], app_id[i],
                              pol_id[i]), "backup_wait")
    /\ UNCHANGED <<service, params, check_mode,
                   session_id, tpl_id, pol_id, app_id,
                   seen>>

(* Variant: a failing trigger status is retried once *)
OnBackupRetry(i) ==
    /\ pc[i] = "backup_wait"
    /\ \E r \in Answers("backup", BackupResponses) :
          /\ lastResp' = [lastResp EXCEPT ![i] = r]
          /\ requests' =
                IF BackupFailed(r.status)
                THEN Append(requests,
                            BackupReq(i, params[i], session_id[i],
                                      app_id[i], pol_id[i]))
                ELSE requests
          /\ Finish(i, BackupResult(params[i], r))
    /\ UNCHANGED <<service, params, check_mode,
                   session_id, tpl_id, pol_id, app_id,
                   seen>>

(* lines 160-165 *)
OnBackup(i) ==
    /\ pc[i] = "backup_wait"
    /\ \/ /\ Finish(i, Raised("ConnectionError"))
          /\ UNCHANGED lastResp
       \/ \E r \in Answers("backup", BackupResponses) :
          /\ lastResp' = [lastResp EXCEPT ![i] = r]
          /\ Finish(i, BackupResult(params[i], r))
    /\ UNCHANGED <<service, params, check_mode,
                   session_id, tpl_id, pol_id, app_id,
                   seen, requests>>

Next ==
    \E i \in Invocations :
        \/ Main(i)
        \/ PostSession(i)
        \/ OnSession(i)
        \/ GetTemplates(i)
        \/ OnTemplates(i)
        \/ GetPolicies(i)
        \/ OnPolicies(i)
        \/ GetApplications(i)
        \/ OnApplications(i)
        \/ PostBackup(i)
        \/ OnBackup(i)

Spec == Init /\ [][Next]_vars

-----------------------------------------------------------------------------
(* Two successive runs of the module with the same input, against a        *)
(* service that gives every call of an endpoint the same answer            *)

SeqSessionAnswers ==
    {[NoResp EXCEPT !.ep = "session", !.status = 200, !.kind = "object",
                    !.id = "S1", !.hasRights = TRUE, !.rights = rs] :
        rs \in {<<RequiredRight>>, <<"other">>}}

SeqLookupAnswers(ep) ==
    {[NoResp EXCEPT !.ep = ep, !.kind = "object", !.hasItems = TRUE,
                    !.items = its] :
        its \in {<<[name |-> "a", id |-> "1"]>>,
                 <<[name |-> "b", id |-> "1"], [name |-> "a", id |-> "2"]>>,
                 <<[name |-> "a", id |-> "x"]>>,
                 <<[name |-> "b", id |-> "1"]>>}}

SeqBackupAnswers ==
    {[NoResp EXCEPT !.ep = "backup", !.status = st, !.kind = "object",
                    !.body = "b1"] : st \in {202, 500}}

FixedServices ==
    {[any |-> FALSE, session |-> {a}, slt |-> {t}, policy |-> {q},
      application |-> {c}, backup |-> {b}] :
        a \in SeqSessionAnswers, t \in SeqLookupAnswers("slt"),
        q \in SeqLookupAnswers("policy"),
        c \in SeqLookupAnswers("application"), b \in SeqBackupAnswers}

SeqParams == {[DefaultParams EXCEPT !.label = l] : l \in Labels}

InitSeq ==
    /\ pc = [i \in Invocations |-> IF i = 1 THEN "main" ELSE "idle"]
    /\ \E p \in SeqParams : params = [i \in Invocations |-> p]
    /\ \E c \in BOOLEAN : check_mode = [i \in Invocations |-> c]
    /\ session_id = [i \in Invocations |-> Missing]
    /\ tpl_id = [i \in Invocations |-> Missing]
    /\ pol_id = [i \in Invocations |-> Missing]
    /\ app_id = [i \in Invocations |-> Missing]
    /\ result = [i \in Invocations |-> NoResult]
    /\ lastResp = [i \in Invocations |-> NoResp]
    /\ seen = [i \in Invocations |-> NoneSeen]
    /\ requests = <<>>
    /\ service \in FixedServices

(* if __name__ == "__main__": main(), run again once the earlier run ended *)
StartNext(i) ==
    /\ pc[i] = "idle"
    /\ \A j \in Invocations : j < i => pc[j] = "done"
    /\ pc' = [pc EXCEPT ![i] = "main"]
    /\ UNCHANGED <<service, params, check_mode, session_id, tpl_id, pol_id,
                   app_id, result, lastResp, seen, requests>>

NextSeq ==
    \E i \in Invocations :
        \/ StartNext(i)
        \/ Main(i)
        \/ PostSession(i)
        \/ OnSession(i)
        \/ GetTemplates(i)
        \/ OnTemplates(i)
        \/ GetPolicies(i)
        \/ OnPolicies(i)
        \/ GetApplications(i)
        \/ OnApplications(i)
        \/ PostBackup(i)
        \/ OnBackup(i)

SpecSeq == InitSeq /\ [][NextSeq]_vars

-----------------------------------------------------------------------------
(* Two runs of the module at the same time (two processes), against a      *)
(* service that hands out session ids as it pleases                        *)

ConcSessionAnswers ==
    {[NoResp EXCEPT !.ep = "session", !.status = 200, !.kind = "object",
                    !.id = sid, !.hasRights = TRUE, !.rights = rs] :
        sid \in {"S1", "S2"}, rs \in {<<RequiredRight>>}}

ConcLookupAnswers(ep) ==
    {[NoResp EXCEPT !.ep = ep, !.kind = "object", !.hasItems = TRUE,
                    !.items = its] :
        its \in {<<[name |-> "a", id |-> "1"]>>,
                 <<[name |-> "b", id |-> "1"]>>}}

ConcBackupAnswers ==
    {[NoResp EXCEPT !.ep = "backup", !.status = 202, !.kind = "object",
                    !.body = "b1"]}

ConcService ==
    [any |-> FALSE,
     session |-> ConcSessionAnswers,
     slt |-> ConcLookupAnswers("slt"),
     policy |-> ConcLookupAnswers("policy"),
     application |-> ConcLookupAnswers("application"),
     backup |-> ConcBackupAnswers]

InitConc ==
    /\ pc = [i \in Invocations |-> "main"]
    /\ params = [i \in Invocations |-> DefaultParams]
    /\ check_mode = [i \in Invocations |-> FALSE]
    /\ session_id = [i \in Invocations |-> Missing]
    /\ tpl_id = [i \in Invocations |-> Missing]
    /\ pol_id = [i \in Invocations |-> Missing]
    /\ app_id = [i \in Invocations |-> Missing]
    /\ result = [i \in Invocations |-> NoResult]
    /\ lastResp = [i \in Invocations |-> NoResp]
    /\ seen = [i \in Invocations |-> NoneSeen]
    /\ requests = <<>>
    /\ service = ConcService

SpecConc == InitConc /\ [][Next]_vars

-----------------------------------------------------------------------------
(* Vocabulary of the properties *)

Done(i) == pc[i] = "done"

(* Backup.application ran (main() did not stop in check mode) *)
Applied(i) == pc[i] \notin {"idle", "main"} /\ ~check_mode[i]

AllSeen(i) ==
    /\ seen[i].session
    /\ seen[i].entitled
    /\ seen[i].template
    /\ seen[i].policy
    /\ seen[i].app

Count(i, ep) == Len(RequestsOf(i, ep))

OnlySessionRequest(i) ==
    /\ Count(i, "session") = 1
    /\ Len(RequestsBy(i)) = 1

InRange(st) == 200 <= st /\ st <= 204

-----------------------------------------------------------------------------
(* C1: the backup POST is issued only after the session call returned 200  *)
(* with an id, the rights contained the required entry and each of the     *)
(* three lookups listed the requested name; an invocation that ends with   *)
(* any of these not having happened ends in failure (fail_json or an       *)
(* uncaught exception) with no backup POST sent.                           *)
C1_BackupOnlyAfterAllSteps ==
    \A i \in Invocations :
        /\ Count(i, "backup") > 0 => AllSeen(i)
        /\ (Applied(i) /\ Done(i) /\ ~AllSeen(i))
              => /\ result[i].how \in {"fail_json", "exception"}
                 /\ Count(i, "backup") = 0

C1_Witness ==
    \E i \in Invocations :
        /\ Count(i, "backup") = 1
        /\ AllSeen(i)
        /\ Count(i, "slt") = 1 /\ Count(i, "policy") = 1
        /\ Count(i, "application") = 1

(* C2: when the trigger call returned status s, the invocation ends in     *)
(* success with changed=true and a message naming app_name exactly when    *)
(* 200 <= s <= 204, and in failure for every other s.                      *)
C2_SuccessIffStatusInRange ==
    \A i \in Invocations :
        lastResp[i].ep = "backup" =>
            /\ Done(i) /\ AllSeen(i)
            /\ IF InRange(lastResp[i].status)
               THEN /\ result[i].how = "exit_json"
                    /\ result[i].hasChanged /\ result[i].changed
                    /\ result[i].hasMsg
                    /\ params[i].app_name \in Range(result[i].msg)
               ELSE result[i].how = "fail_json"

C2_Witness ==
    \E i \in Invocations :
        /\ lastResp[i].ep = "backup"
        /\ lastResp[i].status = 205
        /\ result[i].how = "fail_json"

(* C3: one invocation of Backup.application sends the backup POST at most  *)
(* once: exactly once when it ends in success, and exactly once when the   *)
(* trigger call returned a failing status.                                 *)
C3_BackupAtMostOnce ==
    \A i \in Invocations :
        /\ Count(i, "backup") <= 1
        /\ (Applied(i) /\ Done(i) /\ result[i].how = "exit_json")
              => Count(i, "backup") = 1
        /\ (lastResp[i].ep = "backup" /\ ~InRange(lastResp[i].status))
              => Count(i, "backup") = 1

C3_Witness ==
    \E i \in Invocations :
        /\ Done(i)
        /\ lastResp[i].ep = "backup"
        /\ lastResp[i].status = 500
        /\ Count(i, "backup") = 1

(* C4: a 200 session response with an id whose rights list has no entry    *)
(* with id "Access to Backup & Recover" ends the invocation with the       *)
(* authorization failure, the session POST being the only request.         *)
C4_NoRightNoLookups ==
    \A i \in Invocations :
        ( /\ lastResp[i].ep = "session"
          /\ seen[i].session
          /\ lastResp[i].hasRights
          /\ \A k \in DOMAIN lastResp[i].rights :
                lastResp[i].rights[k] # "Access to Backup & Recover" )
        => /\ Done(i)
           /\ result[i].how = "fail_json"
           /\ result[i].msg = <<"You do not have access to invoke BackupNow">>
           /\ OnlySessionRequest(i)

C4_Witness ==
    \E i \in Invocations :
        /\ Done(i)
        /\ lastResp[i].ep = "session"
        /\ seen[i].session
        /\ lastResp[i].rights = <<"other">>
        /\ result[i].how = "fail_json"

(* C5: a template list with no item named template_name ends the           *)
(* invocation with the not-found failure whose message contains            *)
(* template_name; no policy, application or backup request is sent.        *)
C5_TemplateNotFound ==
    \A i \in Invocations :
        ( /\ lastResp[i].ep = "slt"
          /\ lastResp[i].hasItems
          /\ \A k \in DOMAIN lastResp[i].items :
                lastResp[i].items[k].name # params[i].template_name )
        => /\ Done(i)
           /\ result[i].how = "fail_json"
           /\ result[i].msg[1] = "Failed to retrieve SLA template '"
           /\ result[i].msg[2] = params[i].template_name
           /\ Count(i, "policy") = 0
           /\ Count(i, "application") = 0
           /\ Count(i, "backup") = 0

C5_Witness ==
    \E i \in Invocations :
        /\ Done(i)
        /\ lastResp[i].ep = "slt"
        /\ Len(lastResp[i].items) = 2
        /\ \A k \in DOMAIN lastResp[i].items : lastResp[i].items[k].name = "b"
        /\ params[i].template_name = "a"
        /\ params[i].policy_name = None
        /\ result[i].how = "fail_json"

(* C6: a non-200 session status gives the authentication failure whatever  *)
(* the body is; a 200 response whose JSON object has no id gives the       *)
(* malformed-session failure; in both cases the session POST is the only   *)
(* request.                                                                *)
C6_SessionFailureClassified ==
    \A i \in Invocations :
        lastResp[i].ep = "session" =>
            /\ lastResp[i].status # 200
                 => /\ Done(i)
                    /\ result[i].how = "fail_json"
                    /\ result[i].msg = <<"Failed authentication - ensure you have authenticated with gcloud">>
                    /\ OnlySessionRequest(i)
            /\ ( /\ lastResp[i].status = 200
                 /\ lastResp[i].kind = "object"
                 /\ lastResp[i].id = Missing )
                 => /\ Done(i)
                    /\ result[i].how = "fail_json"
                    /\ result[i].msg = <<"Failed to get session ID on authentication">>
                    /\ OnlySessionRequest(i)

C6_Witness ==
    \E i \in Invocations :
        /\ Done(i)
        /\ lastResp[i].ep = "session"
        /\ lastResp[i].status = 401
        /\ lastResp[i].kind = "notjson"
        /\ result[i].how = "fail_json"

(* C7: in check mode main() calls exit_json with changed=True and ends     *)
(* without any HTTP request, whatever the parameters are.                  *)
C7_CheckModeNoRequests ==
    \A i \in Invocations :
        check_mode[i] =>
            /\ pc[i] \in {"idle", "main", "done"}
            /\ RequestsBy(i) = <<>>
            /\ Done(i) => /\ result[i].how = "exit_json"
                          /\ result[i].hasChanged
                          /\ result[i].changed

C7_Witness ==
    \E i \in Invocations :
        /\ check_mode[i]
        /\ Done(i)
        /\ result[i].how = "exit_json"
        /\ params[i].api_url = NoneSeq
        /\ requests = <<>>

(* C8: every result handed to exit_json or fail_json carries both a        *)
(* changed field and a msg field.  Fails: check mode passes no msg, and    *)
(* five of the seven fail_json calls pass no changed.                      *)
C8_ResultHasChangedAndMsg ==
    \A i \in Invocations :
        result[i].how \in {"exit_json", "fail_json"}
            => result[i].hasChanged /\ result[i].hasMsg

(* C9: an invocation that omits api_url, access_token, template_name,      *)
(* policy_name or app_name is rejected as an input error before any        *)
(* request is sent.  Fails: argument_spec requires nothing.                *)
C9_RequiredParamsRejected ==
    \A i \in Invocations :
        ( \/ params[i].api_url = NoneSeq
          \/ params[i].access_token = NoneSeq
          \/ params[i].template_name = None
          \/ params[i].policy_name = None
          \/ params[i].app_name = None )
        => /\ RequestsBy(i) = <<>>
           /\ Done(i) => result[i].how = "fail_json"

(* C10: when the trigger status is outside [200,204] the failure message   *)
(* carries the status code and the body of the trigger response.  Fails:   *)
(* the message formats the bound method json, never the body.              *)
C10_FailureCarriesStatusAndBody ==
    \A i \in Invocations :
        (lastResp[i].ep = "backup" /\ ~InRange(lastResp[i].status))
        => /\ result[i].how = "fail_json"
           /\ ToString(lastResp[i].status) \in Range(result[i].msg)
           /\ lastResp[i].body \in Range(result[i].msg)

(* C11: run twice with identical input against a service that answers     *)
(* both runs identically, the second run ends as the first did, having     *)
(* sent the same requests itself: when the first run succeeds each run     *)
(* made its own session POST and its own backup POST, two backup POSTs in  *)
(* all, and the second run used nothing the first had resolved.            *)
Answered(i) == Done(i) /\ result[i].exc # "ConnectionError"

SameRequests(i, j) ==
    /\ Len(RequestsBy(i)) = Len(RequestsBy(j))
    /\ \A k \in 1..Len(RequestsBy(i)) :
          [RequestsBy(i)[k] EXCEPT !.inv = j] = RequestsBy(j)[k]

C11_SecondRunTriggersAgain ==
    (Answered(1) /\ Answered(2)) =>
        /\ result[2] = result[1]
        /\ SameRequests(2, 1)
        /\ (Applied(1) /\ result[1].how = "exit_json") =>
              /\ Count(1, "session") = 1 /\ Count(2, "session") = 1
              /\ Count(1, "backup") = 1 /\ Count(2, "backup") = 1
              /\ Len(SelectSeq(requests, LAMBDA q : q.ep = "backup")) = 2

C11_Witness ==
    /\ Answered(1) /\ Answered(2)
    /\ Applied(1) /\ Applied(2)
    /\ result[1].how = "exit_json" /\ result[2].how = "exit_json"
    /\ Len(SelectSeq(requests, LAMBDA q : q.ep = "backup")) = 2
    /\ Len(SelectSeq(requests, LAMBDA q : q.ep = "session")) = 2

(* C12 as claimed: the backup request body carries the label as supplied   *)
(* whenever a label is given, whatever string it is, and no label field    *)
(* when none is given.  Fails for the empty string.                        *)
C12_LabelWheneverGiven ==
    \A i \in Invocations :
        \A k \in DOMAIN RequestsOf(i, "backup") :
            LET q == RequestsOf(i, "backup")[k] IN
            IF params[i].label # None
            THEN q.hasLabel /\ q.label = params[i].label
            ELSE ~q.hasLabel

(* C12, amended: the body carries the label as supplied whenever a         *)
(* non-empty label is given, and has no label field when the label is      *)
(* omitted or is the empty string.                                         *)
C12_LabelWhenNonEmpty ==
    \A i \in Invocations :
        \A k \in DOMAIN RequestsOf(i, "backup") :
            LET q == RequestsOf(i, "backup")[k] IN
            IF params[i].label \notin {None, ""}
            THEN q.hasLabel /\ q.label = params[i].label
            ELSE ~q.hasLabel

C12_Witness ==
    \E i \in Invocations :
        /\ Count(i, "backup") = 1
        /\ params[i].label = "L"
        /\ RequestsOf(i, "backup")[1].hasLabel
        /\ RequestsOf(i, "backup")[1].label = "L"

(* C13: the requests of one invocation are, in order, a prefix of session  *)
(* POST, template GET, policy GET, application GET, backup POST, so each   *)
(* is sent at most once, and each is sent only after the responses to all  *)
(* earlier ones had what their step needs.                                 *)
CallOrder == <<"session", "slt", "policy", "application", "backup">>

CallMethod == <<"POST", "GET", "GET", "GET", "POST">>

C13_FixedCallOrder ==
    \A i \in Invocations :
        LET qs == RequestsBy(i) IN
        /\ Len(qs) <= 5
        /\ \A k \in DOMAIN qs : /\ qs[k].ep = CallOrder[k]
                                /\ qs[k].method = CallMethod[k]
        /\ Len(qs) >= 2 => seen[i].session /\ seen[i].entitled
        /\ Len(qs) >= 3 => seen[i].template
        /\ Len(qs) >= 4 => seen[i].policy
        /\ Len(qs) >= 5 => seen[i].app

C13_Witness ==
    \E i \in Invocations :
        /\ Len(RequestsBy(i)) = 5
        /\ RequestsBy(i)[5].ep = "backup"
        /\ Done(i)

(* C14: provided every HTTP call returns a response, a run of              *)
(* Backup.application on complete input ends reported, through exit_json   *)
(* or fail_json, whatever the responses contain.  Fails: a session body    *)
(* that is not a JSON object and a policy id that int() rejects raise an   *)
(* exception nobody catches.                                               *)
InputComplete(p) ==
    /\ p.api_url # NoneSeq
    /\ p.access_token # NoneSeq
    /\ p.template_name # None
    /\ p.policy_name # None
    /\ p.app_name # None

C14_EveryEndingReported ==
    \A i \in Invocations :
        ( /\ Applied(i)
          /\ Done(i)
          /\ InputComplete(params[i])
          /\ result[i].exc # "ConnectionError" )
        => result[i].how \in {"exit_json", "fail_json"}

(* C15: the policy GET goes to /slt/{id} with the id of the first template *)
(* named template_name in this invocation's template list; the backup      *)
(* POST goes to /application/{id}/backup with the id of the first          *)
(* application named app_name, and its body's policy id is the number      *)
(* written in the id of the first policy named policy_name.                *)
C15_ResolvedIdsAreUsed ==
    \A i \in Invocations :
        \A k \in DOMAIN RequestsBy(i) :
            LET q == RequestsBy(i)[k] IN
            /\ q.ep = "policy" =>
                  /\ seen[i].tplId # Missing
                  /\ q.id = seen[i].tplId
            /\ q.ep = "backup" =>
                  /\ seen[i].appId # Missing
                  /\ q.id = seen[i].appId
                  /\ \/ seen[i].polId = "1" /\ q.policy = 1
                     \/ seen[i].polId = "2" /\ q.policy = 2

C15_Witness ==
    \E i \in Invocations :
        /\ Count(i, "backup") = 1
        /\ seen[i].tplId = "x"
        /\ seen[i].polId = "1"
        /\ seen[i].appId = "2"
        /\ RequestsOf(i, "policy")[1].id = "x"
        /\ RequestsOf(i, "backup")[1].id = "2"
        /\ RequestsOf(i, "backup")[1].policy = 1

(* C16: in each of the three lookups the id resolved is the id of the      *)
(* first item, in list order, whose name is the requested one; when every  *)
(* item of the list has a name and an id, a list that has the name always  *)
(* resolves, whatever other items stand before or after the match.         *)
WellFormed(r) ==
    /\ r.kind = "object" /\ r.hasItems
    /\ \A k \in DOMAIN r.items :
          r.items[k].name # Missing /\ r.items[k].id # Missing

FirstOf(r, ep, wanted, resolved, proceeded) ==
    r.ep = ep =>
        /\ proceeded => resolved = MatchedId(r, wanted)
        /\ (WellFormed(r) /\ ListsName(r, wanted)) => proceeded

C16_FirstMatchWins ==
    \A i \in Invocations :
        /\ FirstOf(lastResp[i], "slt", params[i].template_name,
                   tpl_id[i], pc[i] = "policy")
        /\ FirstOf(lastResp[i], "policy", params[i].policy_name,
                   pol_id[i], pc[i] = "application")
        /\ FirstOf(lastResp[i], "application", params[i].app_name,
                   app_id[i], pc[i] = "backup")

C16_Witness ==
    \E i \in Invocations :
        /\ lastResp[i].ep = "policy"
        /\ lastResp[i].items = <<[name |-> "a", id |-> "2"],
                                 [name |-> "a", id |-> "1"]>>
        /\ pc[i] = "application"
        /\ pol_id[i] = "2"

(* C17: however two concurrent invocations interleave, every template,     *)
(* policy, application and backup request of an invocation carries the     *)
(* session id that the service returned to that invocation's own session   *)
(* POST, and a step of one invocation changes nothing the other holds.     *)
OwnSessionHeader ==
    \A k \in DOMAIN requests :
        LET q == requests[k] IN
        IF q.ep = "session"
        THEN q.session = "-"
        ELSE /\ seen[q.inv].sid # Missing
             /\ q.session = seen[q.inv].sid

Local(i) ==
    <<params[i], check_mode[i], session_id[i], tpl_id[i], pol_id[i],
      app_id[i], result[i], lastResp[i], seen[i], RequestsBy(i)>>

OthersUntouched ==
    \A i \in Invocations : pc'[i] = pc[i] => Local(i)' = Local(i)

C17_OwnSessionOnly == []OwnSessionHeader /\ [][OthersUntouched]_vars

C17_Witness ==
    /\ Count(1, "backup") = 1
    /\ Count(2, "backup") = 1
    /\ seen[1].sid = "S2"
    /\ seen[2].sid = "S1"
    /\ requests[1].inv = 2
    /\ requests[2].inv = 1
    /\ requests[3].inv = 1
    /\ requests[4].inv = 2

(* C18: a 200 session response with an id whose rights field is absent,    *)
(* is empty, or holds only entries without an id ends the invocation with  *)
(* the authorization failure, reported through fail_json, the session      *)
(* POST being the only request.                                            *)
C18_UnusableRightsMeanNoAccess ==
    \A i \in Invocations :
        ( /\ lastResp[i].ep = "session"
          /\ lastResp[i].status = 200
          /\ lastResp[i].kind = "object"
          /\ lastResp[i].id # Missing
          /\ \/ ~lastResp[i].hasRights
             \/ \A k \in DOMAIN lastResp[i].rights :
                   lastResp[i].rights[k] = Missing )
        => /\ Done(i)
           /\ result[i].how = "fail_json"
           /\ result[i].msg = <<"You do not have access to invoke BackupNow">>
           /\ OnlySessionRequest(i)

C18_Witness ==
    \E i \in Invocations :
        /\ Done(i)
        /\ lastResp[i].ep = "session"
        /\ lastResp[i].status = 200
        /\ lastResp[i].id = "S1"
        /\ lastResp[i].hasRights
        /\ lastResp[i].rights = <<Missing, Missing>>
        /\ result[i].how = "fail_json"

====
